---------------------------- MODULE Spec2Model ----------------------------
(***************************************************************************)
(* Model of up_bridge/components/graph.py: plan_to_dependency_graph and    *)
(* its two builders, _sequential_plan_to_dependency_graph and              *)
(* _time_triggered_plan_to_dependency_graph.                               *)
(*                                                                         *)
(* A networkx DiGraph is a pair of dictionaries: nodes (key -> attribute   *)
(* dict) and edges ((u, v) -> attribute dict).  add_node and add_edge      *)
(* insert the key when it is absent and update the attribute dict when it  *)
(* is present.  Node keys are Python strings, modelled as TLA+ strings     *)
(* built by the same concatenations as the f-strings of the source.        *)
(***************************************************************************)
EXTENDS Integers, Sequences, FiniteSets, TLC

VARIABLES
    plan,              \* the plan value handed to plan_to_dependency_graph
    pc,                \* position of the call: idle, seq_loop, tt_loop, returned, raised
    callee,            \* "" or the builder plan_to_dependency_graph called
    i,                 \* position of the for loop in the plan's list
    edge,              \* the local variable `edge` (the previous node's key)
    dependency_graph,  \* the local variable `dependency_graph`
    returned,          \* <<>> while nothing is returned, <<G>> once G is returned
    raised,            \* "" or the name of the exception that left the call
    previous,          \* <<>> or <<G>>: the graph of an earlier call on a plan
                       \* that differs from `plan` only in its start times
    retimed            \* whether `plan` is such a re-timed plan

vars == <<plan, pc, callee, i, edge, dependency_graph, returned, raised, previous, retimed>>

-----------------------------------------------------------------------------
(* Bounds and input universe *)

\* longest plan drawn as an input
MaxLen == 3

\* ActionInstance values: action.name and actual_parameters.  Move and Survey
\* are the actions of examples/parallel.py; an action may carry any name,
\* "end" included, and may take no parameter.
ActionInstances ==
    { [name |-> "Move",   actual_parameters |-> <<"l1", "l2">>],
      [name |-> "Survey", actual_parameters |-> <<"area">>],
      [name |-> "end",    actual_parameters |-> <<>>] }

\* Fractions <<numerator, denominator>> in lowest terms, as Fraction keeps them
Durations == { <<5, 1>>, <<1, 2>>, <<-1, 1>> }
StartTimes == { <<0, 1>>, <<5, 1>> }

TimedActions == StartTimes \X ActionInstances \X Durations

SeqsUpTo(S, n) == UNION { [1..k -> S] : k \in 0..n }

SequentialPlans ==
    { [kind |-> "SequentialPlan", actions |-> a] : a \in SeqsUpTo(ActionInstances, MaxLen) }

TimeTriggeredPlans ==
    { [kind |-> "TimeTriggeredPlan", timed_actions |-> t] : t \in SeqsUpTo(TimedActions, MaxLen) }

\* plan objects of any other class
OtherPlans == { [kind |-> "PartialOrderPlan"], [kind |-> "ContingentPlan"] }

Plans == SequentialPlans \cup TimeTriggeredPlans \cup OtherPlans

-----------------------------------------------------------------------------
(* Python values *)

\* repr of a tuple of objects: "()", "(a,)", "(a, b)"
RECURSIVE JoinRepr(_)
JoinRepr(t) ==
    IF Len(t) = 0 THEN ""
    ELSE IF Len(t) = 1 THEN t[1]
    ELSE t[1] \o ", " \o JoinRepr(Tail(t))

TupleRepr(t) ==
    IF Len(t) = 1 THEN "(" \o t[1] \o ",)"
    ELSE "(" \o JoinRepr(t) \o ")"

\* float(numerator) / float(denominator).  The float is held in tenths, which
\* is exact for the denominators 1 and 2 of Durations and StartTimes.
FloatDiv(fraction) == (fraction[1] * 10) \div fraction[2]

\* str of a float held in tenths: "5.0", "0.5", "-1.0"
FloatStr(f) ==
    LET a == IF f < 0 THEN -f ELSE f
    IN  (IF f < 0 THEN "-" ELSE "") \o ToString(a \div 10) \o "." \o ToString(a % 10)

\* dict.update
DictUpdate(old, new) ==
    [k \in DOMAIN old \cup DOMAIN new |-> IF k \in DOMAIN new THEN new[k] ELSE old[k]]

-----------------------------------------------------------------------------
(* networkx.DiGraph *)

DiGraph == [nodes |-> <<>>, edges |-> <<>>]

\* G.add_node(n, **attr)
AddNode(G, n, attr) ==
    [G EXCEPT !.nodes =
        [k \in DOMAIN G.nodes \cup {n} |->
            IF k = n
            THEN (IF n \in DOMAIN G.nodes THEN DictUpdate(G.nodes[n], attr) ELSE attr)
            ELSE G.nodes[k]]]

\* G.add_edge(u, v, **attr); both ends are nodes of G wherever the builders call it
AddEdge(G, u, v, attr) ==
    [G EXCEPT !.edges =
        [e \in DOMAIN G.edges \cup {<<u, v>>} |->
            IF e = <<u, v>>
            THEN (IF e \in DOMAIN G.edges THEN DictUpdate(G.edges[e], attr) ELSE attr)
            ELSE G.edges[e]]]

SentinelAttr(s) == [action |-> s, parameters |-> <<>>]

-----------------------------------------------------------------------------
(* graph.py *)

\* Mutant: the second isinstance test is missing
DispatchSequentialOnly(p) ==
    IF p.kind = "SequentialPlan" THEN "_sequential_plan_to_dependency_graph"
    ELSE "NotImplementedError"

\* the isinstance tests of plan_to_dependency_graph
Dispatch(p) ==
    IF p.kind = "SequentialPlan" THEN "_sequential_plan_to_dependency_graph"
    ELSE IF p.kind = "TimeTriggeredPlan" THEN "_time_triggered_plan_to_dependency_graph"
    ELSE "NotImplementedError"

\* Mutant: the node key is the action's name alone
SeqChildNameNoParameters(action) == action.name

\* child_name of the sequential builder
SeqChildName(action) == action.name \o TupleRepr(action.actual_parameters)

\* child_name of the time-triggered builder; duration is the float
TTChildName(action, duration) ==
    action.name \o TupleRepr(action.actual_parameters) \o "(" \o FloatStr(duration) \o "s)"

\* Mutant: the triples are visited by start time (stable for equal start times)
TimedActionsByStart(p) ==
    LET t == p.timed_actions
        early == SelectSeq(t, LAMBDA x : FloatDiv(x[1]) = 0)
        late  == SelectSeq(t, LAMBDA x : FloatDiv(x[1]) # 0)
    IN  early \o late

\* the list the time-triggered loop iterates over
LoopTimedActions(p) == p.timed_actions

\* the list the sequential loop iterates over
LoopActions(p) == p.actions

\* lines 21-23 and 38-40: the graph with its start node
Prologue == AddNode(DiGraph, "start", SentinelAttr("start"))

\* lines 31-32 and 50-51
Epilogue(G, e) == AddEdge(AddNode(G, "end", SentinelAttr("end")), e, "end", <<>>)

plan_to_dependency_graph ==
    /\ pc = "idle"
    /\ LET callee_ == Dispatch(plan) IN
        \/ /\ callee_ = "_sequential_plan_to_dependency_graph"
           /\ pc' = "seq_loop"
           /\ callee' = callee_
           /\ dependency_graph' = Prologue
           /\ edge' = "start"
           /\ i' = 1
           /\ UNCHANGED raised
        \/ /\ callee_ = "_time_triggered_plan_to_dependency_graph"
           /\ pc' = "tt_loop"
           /\ callee' = callee_
           /\ dependency_graph' = Prologue
           /\ edge' = "start"
           /\ i' = 1
           /\ UNCHANGED raised
        \/ /\ callee_ = "NotImplementedError"
           /\ pc' = "raised"
           /\ raised' = "NotImplementedError"
           /\ UNCHANGED <<callee, dependency_graph, edge, i>>
    /\ UNCHANGED <<plan, returned, previous, retimed>>

\* one iteration of the sequential loop, lines 24-29
SeqIter ==
    /\ pc = "seq_loop"
    /\ i <= Len(LoopActions(plan))
    /\ LET action == LoopActions(plan)[i]
           child == action.name
           child_name == SeqChildName(action)
       IN  /\ dependency_graph' =
                AddEdge(AddNode(dependency_graph, child_name,
                                [action |-> child, parameters |-> action.actual_parameters]),
                        edge, child_name, <<>>)
           /\ edge' = child_name
    /\ i' = i + 1
    /\ UNCHANGED <<plan, pc, callee, returned, raised, previous, retimed>>

\* lines 31-33
SeqReturn ==
    /\ pc = "seq_loop"
    /\ i > Len(LoopActions(plan))
    /\ dependency_graph' = Epilogue(dependency_graph, edge)
    /\ returned' = <<dependency_graph'>>
    /\ pc' = "returned"
    /\ UNCHANGED <<plan, callee, i, edge, raised, previous, retimed>>

\* one iteration of the time-triggered loop, lines 42-48
TTIter ==
    /\ pc = "tt_loop"
    /\ i <= Len(LoopTimedActions(plan))
    /\ LET action == LoopTimedActions(plan)[i][2]
           child == action.name
           duration == FloatDiv(LoopTimedActions(plan)[i][3])
           child_name == TTChildName(action, duration)
       IN  /\ dependency_graph' =
                AddEdge(AddNode(dependency_graph, child_name,
                                [action |-> child, parameters |-> action.actual_parameters]),
                        edge, child_name, [weight |-> duration])
           /\ edge' = child_name
    /\ i' = i + 1
    /\ UNCHANGED <<plan, pc, callee, returned, raised, previous, retimed>>

\* lines 50-52
TTReturn ==
    /\ pc = "tt_loop"
    /\ i > Len(LoopTimedActions(plan))
    /\ dependency_graph' = Epilogue(dependency_graph, edge)
    /\ returned' = <<dependency_graph'>>
    /\ pc' = "returned"
    /\ UNCHANGED <<plan, callee, i, edge, raised, previous, retimed>>

\* The caller builds a second time-triggered plan that differs from the first
\* only in its start times and calls plan_to_dependency_graph on it.
Retime ==
    /\ pc = "returned"
    /\ plan.kind = "TimeTriggeredPlan"
    /\ ~retimed
    /\ \E t \in [1..Len(plan.timed_actions) -> StartTimes] :
          /\ \E k \in DOMAIN t : t[k] # plan.timed_actions[k][1]
          /\ plan' = [plan EXCEPT !.timed_actions =
                        [k \in DOMAIN t |-> <<t[k], plan.timed_actions[k][2],
                                              plan.timed_actions[k][3]>>]]
    /\ previous' = returned
    /\ retimed' = TRUE
    /\ returned' = <<>>
    /\ pc' = "idle"
    /\ callee' = ""
    /\ i' = 0
    /\ edge' = ""
    /\ dependency_graph' = DiGraph
    /\ UNCHANGED raised

Init ==
    /\ plan \in Plans
    /\ pc = "idle"
    /\ callee = ""
    /\ i = 0
    /\ edge = ""
    /\ dependency_graph = DiGraph
    /\ returned = <<>>
    /\ raised = ""
    /\ previous = <<>>
    /\ retimed = FALSE

Next ==
    \/ plan_to_dependency_graph
    \/ SeqIter
    \/ SeqReturn
    \/ TTIter
    \/ TTReturn
    \/ Retime

Spec == Init /\ [][Next]_vars

-----------------------------------------------------------------------------
(* Vocabulary of the properties *)

IsSequential == plan.kind = "SequentialPlan"
IsTimeTriggered == plan.kind = "TimeTriggeredPlan"

\* number of action occurrences of the plan
PlanLen ==
    IF IsSequential THEN Len(plan.actions)
    ELSE IF IsTimeTriggered THEN Len(plan.timed_actions)
    ELSE 0

\* the key under which the occurrence at position p of the plan's own list is
\* stored; position 0 is `start`, position PlanLen + 1 is `end`
NodeAt(p) ==
    IF p = 0 THEN "start"
    ELSE IF p = PlanLen + 1 THEN "end"
    ELSE IF IsSequential THEN SeqChildName(plan.actions[p])
    ELSE TTChildName(plan.timed_actions[p][2], FloatDiv(plan.timed_actions[p][3]))

\* the edges of the chain start -> a1 -> ... -> aN -> end
ChainEdges == { <<NodeAt(j), NodeAt(j + 1)>> : j \in 0..PlanLen }

\* a graph has been returned for the plan
GraphReturned == pc = "returned" /\ Len(returned) = 1

Nodes(G) == DOMAIN G.nodes
Edges(G) == DOMAIN G.edges

Successors(G, S) == { e[2] : e \in { d \in Edges(G) : d[1] \in S } }

\* the nodes reachable from S along directed edges, S included
RECURSIVE Reach(_, _)
Reach(G, S) ==
    LET T == S \cup Successors(G, S)
    IN  IF T = S THEN S ELSE Reach(G, T)

Acyclic(G) == \A n \in Nodes(G) : n \notin Reach(G, Successors(G, {n}))

\* start time, duration and completion time (in tenths) of the triple at p
StartOf(p) == FloatDiv(plan.timed_actions[p][1])
DurationOf(p) == FloatDiv(plan.timed_actions[p][3])
EndOf(p) == StartOf(p) + DurationOf(p)

\* the intervals [start, start + duration) of two triples overlap, so neither
\* action completes before the other begins: no causal order between them
Concurrent(p, q) == StartOf(p) < EndOf(q) /\ StartOf(q) < EndOf(p)

\* a time-triggered plan whose durations are all non-negative
WellTimed == IsTimeTriggered /\ \A p \in 1..PlanLen : DurationOf(p) >= 0

\* the duration of the occurrence stored under action node u
DurationOfNode(u) == DurationOf(CHOOSE p \in 1..PlanLen : NodeAt(p) = u)

-----------------------------------------------------------------------------
(* Claims *)

\* C1: a sequential plan of length N yields a graph with exactly N+2 nodes
\* whose edges are exactly the N+1 edges of the chain
\* start -> a1 -> ... -> aN -> end, repeated actions included.
C1_SequentialChain ==
    (GraphReturned /\ IsSequential) =>
        /\ Cardinality(Nodes(returned[1])) = PlanLen + 2
        /\ Edges(returned[1]) = ChainEdges
        /\ Cardinality(Edges(returned[1])) = PlanLen + 1

\* C2: two distinct positions of a plan (either kind) are stored under two
\* distinct nodes of the graph, even when name, parameters and duration agree.
C2_NodePerOccurrence ==
    GraphReturned =>
        /\ \A p, q \in 1..PlanLen : p # q => NodeAt(p) # NodeAt(q)
        /\ Cardinality(Nodes(returned[1]) \ {"start", "end"}) = PlanLen

\* C3: the graph of a time-triggered plan is acyclic and every node lies on a
\* directed path from start to end (stated here for the plans whose durations
\* are non-negative, which the claim covers with all others).
C3_AcyclicStartToEnd ==
    (GraphReturned /\ WellTimed) =>
        /\ Acyclic(returned[1])
        /\ \A n \in Nodes(returned[1]) :
              /\ n \in Reach(returned[1], {"start"})
              /\ "end" \in Reach(returned[1], {n})

\* C4: two actions of a time-triggered plan with no causal order between them
\* have no edge between their nodes, in either direction (two triples whose
\* intervals overlap have no causal order: neither completes before the other
\* begins).
C4_IndependencePreserved ==
    (GraphReturned /\ WellTimed) =>
        \A p, q \in 1..PlanLen :
            (p # q /\ Concurrent(p, q) /\ NodeAt(p) # NodeAt(q)) =>
                /\ <<NodeAt(p), NodeAt(q)>> \notin Edges(returned[1])
                /\ <<NodeAt(q), NodeAt(p)>> \notin Edges(returned[1])

\* C5: in every returned graph start has no incoming and at least one outgoing
\* edge, end has no outgoing and at least one incoming edge, and no action
\* occurrence is stored under the key start or end.
C5_Sentinels ==
    GraphReturned =>
        LET G == returned[1] IN
        /\ \A e \in Edges(G) : e[2] # "start" /\ e[1] # "end"
        /\ \E e \in Edges(G) : e[1] = "start"
        /\ \E e \in Edges(G) : e[2] = "end"
        /\ <<"start", NodeAt(1)>> \in Edges(G)
        /\ \A p \in 1..PlanLen : NodeAt(p) \notin {"start", "end"}
        /\ Cardinality(Nodes(G) \ {"start", "end"}) = Cardinality({ NodeAt(p) : p \in 1..PlanLen })
        /\ G.nodes["start"] = SentinelAttr("start")
        /\ G.nodes["end"] = SentinelAttr("end")

\* C5 witness: a graph returned for a sequential plan whose last action is
\* named "end" and takes no parameter.
C5_Witness ==
    /\ GraphReturned
    /\ IsSequential
    /\ PlanLen = 2
    /\ plan.actions[2].name = "end"

\* C6: a plan that is neither sequential nor time-triggered makes the call
\* fail with the unsupported-plan error and no graph; the sequential builder
\* runs exactly for sequential plans, the time-triggered one exactly for
\* time-triggered plans.
C6_Dispatch ==
    pc # "idle" =>
        /\ (callee = "_sequential_plan_to_dependency_graph") <=> IsSequential
        /\ (callee = "_time_triggered_plan_to_dependency_graph") <=> IsTimeTriggered
        /\ (pc = "seq_loop") => IsSequential
        /\ (pc = "tt_loop") => IsTimeTriggered
        /\ (~IsSequential /\ ~IsTimeTriggered) <=>
              (pc = "raised" /\ raised = "NotImplementedError")
        /\ (pc = "raised") => (returned = <<>> /\ dependency_graph = DiGraph)

\* C6 witness: the call on a partial-order plan has raised.
C6_Witness ==
    /\ plan.kind = "PartialOrderPlan"
    /\ pc = "raised"
    /\ raised = "NotImplementedError"

\* C7: a time-triggered plan with a negative duration makes the call fail with
\* MalformedPlan, and no graph is returned for it.
C7_MalformedPlanRejected ==
    (IsTimeTriggered /\ \E p \in 1..PlanLen : DurationOf(p) < 0) =>
        /\ returned = <<>>
        /\ pc \in {"idle", "tt_loop", "raised"}
        /\ (pc = "raised") => raised = "MalformedPlan"

\* C9: in the graph of a time-triggered plan every edge leaving an action
\* node, the edge into end included, carries the duration of its source node
\* as weight (stated here for the plans whose durations are non-negative).
C9_WeightIsSourceDuration ==
    (GraphReturned /\ WellTimed) =>
        \A e \in Edges(returned[1]) :
            e[1] # "start" =>
                /\ "weight" \in DOMAIN returned[1].edges[e]
                /\ returned[1].edges[e].weight = DurationOfNode(e[1])

=============================================================================
